---- MODULE Spec2Model ----
(***************************************************************************)
(* Model of cyber_ids/services.py: version discovery, the artifact loader  *)
(* with its process-wide single-slot cache, the sanitizer and the          *)
(* inference entry point.                                                  *)
(*                                                                         *)
(* Strings are sequences of character codes, so that sorting file names    *)
(* is the code-point comparison Python performs.  An optional value        *)
(* (None / a value) is a sequence of length 0 / 1.                         *)
(***************************************************************************)
EXTENDS Integers, Sequences, FiniteSets, TLC

VARIABLES
    disk,       \* the files present under ARTIFACTS_ROOT: [dir, name]
    cache,      \* _ARTIFACT_CACHE: <<>> (None) or <<bundle>>
    nextId,     \* identity of the next ArtifactBundle object to be constructed
    call,       \* the last completed call: its arguments, what it saw, its outcome
    pc,         \* per thread: position inside load_artifacts
    frame,      \* per thread: arguments and locals of its load_artifacts call
    writeLog    \* the threads that assigned _ARTIFACT_CACHE, in order

vars == <<disk, cache, nextId, call, pc, frame, writeLog>>

(***************************************************************************)
(* Bounds                                                                  *)
(***************************************************************************)
MaxLoads == 3       \* bundles constructed in one behaviour
MaxLen == 2         \* length of a version string in the discovery runs
MaxSet == 2         \* metadata files in the directory in the discovery runs
MaxRows == 2        \* rows of an input table

None == <<>>
Some(x) == <<x>>

(***************************************************************************)
(* artifacts_config.py                                                     *)
(***************************************************************************)
MODELS_DIR == "artifacts/models"
META_DIR == "artifacts/meta"
MODEL_BASENAME ==
    <<99, 121, 98, 101, 114, 95, 105, 100, 115, 95, 99, 104, 97, 109, 112, 105, 111, 110>>
FEATURES_BASENAME ==
    <<99, 121, 98, 101, 114, 95, 105, 100, 115, 95, 102, 101, 97, 116, 117, 114, 101, 115>>
METADATA_BASENAME ==
    <<99, 121, 98, 101, 114, 95, 105, 100, 115, 95, 109, 101, 116, 97, 100, 97, 116, 97>>
SANITIZER_BASENAME ==
    <<99, 121, 98, 101, 114, 95, 105, 100, 115, 95, 115, 97, 110, 105, 116, 105, 122, 101, 114>>
MODEL_SUFFIX == <<46, 106, 111, 98, 108, 105, 98>>
META_SUFFIX == <<46, 106, 115, 111, 110>>
SANITIZER_SUFFIX == <<46, 106, 111, 98, 108, 105, 98>>
\* probabilities are counted in halves: 0 = 0.0, 1 = 0.5, 2 = 1.0
DEFAULT_DECISION_THRESHOLD == 1

Underscore == <<95>>
DotChar == <<46>>

(***************************************************************************)
(* String helpers (str comparison, startswith, PurePath.stem)              *)
(***************************************************************************)
\* a < b in Python's str ordering (code point by code point, prefix first)
StrLess(a, b) ==
    \E i \in 1..Len(b) :
        /\ i <= Len(a) + 1
        /\ \A k \in 1..(i - 1) : a[k] = b[k]
        /\ (i = Len(a) + 1 \/ a[i] < b[i])

StrLeq(a, b) == a = b \/ StrLess(a, b)

StartsWith(s, p) == Len(p) <= Len(s) /\ SubSeq(s, 1, Len(p)) = p

EndsWith(s, p) == Len(p) <= Len(s) /\ SubSeq(s, Len(s) - Len(p) + 1, Len(s)) = p

\* PurePath.stem: the name without its last suffix
Stem(name) ==
    LET dots == {i \in 1..Len(name) : name[i] = DotChar[1]}
        i == IF dots = {} THEN 0 ELSE CHOOSE d \in dots : \A e \in dots : e <= d
    IN  IF 1 < i /\ i < Len(name) THEN SubSeq(name, 1, i - 1) ELSE name

\* sorted(...) over a finite set of strings
RECURSIVE SortedNames(_)
SortedNames(S) ==
    IF S = {} THEN <<>>
    ELSE LET least == CHOOSE n \in S : \A m \in S : StrLeq(n, m)
         IN  <<least>> \o SortedNames(S \ {least})

(***************************************************************************)
(* _discover_latest_version                                                *)
(***************************************************************************)
\* meta_dir.glob(f"{METADATA_BASENAME}_*{META_SUFFIX}") over the names in meta_dir
GlobMetadata(d) ==
    {f.name : f \in {g \in d : /\ g.dir = META_DIR
                               /\ StartsWith(g.name, METADATA_BASENAME \o Underscore)
                               /\ EndsWith(g.name, META_SUFFIX)
                               /\ Len(g.name) >=
                                    Len(METADATA_BASENAME) + 1 + Len(META_SUFFIX)}}

\* candidates[-1] of the sorted candidates
LatestCandidate(candidates) == SortedNames(candidates)[Cardinality(candidates)]

DiscoverLatestVersion(d) ==
    LET candidates == GlobMetadata(d)
        prefix == METADATA_BASENAME \o Underscore
    IN  IF candidates = {}
        THEN [status |-> "NotFound", version |-> <<>>]
        ELSE LET name == Stem(LatestCandidate(candidates))
             IN  IF ~StartsWith(name, prefix)
                 THEN [status |-> "MalformedName", version |-> <<>>]
                 ELSE [status |-> "ok",
                       version |-> SubSeq(name, Len(prefix) + 1, Len(name))]

(***************************************************************************)
(* The artifact files                                                      *)
(***************************************************************************)
\* the four paths load_artifacts formats from a version string
ArtifactPaths(version) ==
    [model_path |->
        [dir |-> MODELS_DIR, name |-> MODEL_BASENAME \o Underscore \o version \o MODEL_SUFFIX],
     feature_list_path |->
        [dir |-> META_DIR, name |-> FEATURES_BASENAME \o Underscore \o version \o META_SUFFIX],
     metadata_path |->
        [dir |-> META_DIR, name |-> METADATA_BASENAME \o Underscore \o version \o META_SUFFIX],
     sanitizer_path |->
        [dir |-> META_DIR,
         name |-> SANITIZER_BASENAME \o Underscore \o version \o SANITIZER_SUFFIX]]

\* the order of the existence checks
PathOrder(version) ==
    LET p == ArtifactPaths(version)
    IN  <<p.model_path, p.feature_list_path, p.metadata_path, p.sanitizer_path>>

PathSet(version) == {PathOrder(version)[i] : i \in 1..4}

\* the versions the training notebook saves in the loader runs: "2" and "2-1"
LoadVersions == {<<50>>, <<50, 45, 49>>}

AllFiles == UNION {PathSet(v) : v \in LoadVersions}

\* What the saved files hold.  The two versions differ in every file.  The
\* feature list of "2-1" has no "features" key.
ModelBlob(version) == [bias |-> Len(version)]

FeaturePayload(version) ==
    IF version = <<50>> THEN [features |-> <<"a", "b">>]
    ELSE [columns |-> <<"b", "a">>]

MetadataPayload(version) ==
    IF version = <<50>> THEN [target_column |-> "Label", train_days |-> <<"Mon">>]
    ELSE [target_column |-> "Attack"]

SanitizerBlob(version) ==
    IF version = <<50>> THEN [columns |-> <<"a", "b">>, medians |-> <<7, 16777219>>]
    ELSE [columns |-> <<"b", "a">>, medians |-> <<9, 7>>]

\* joblib.load(path) / json.load(open(path)) of a file that is on disk
ReadFile(path) ==
    LET v == CHOOSE v \in LoadVersions : path \in PathSet(v)
        p == ArtifactPaths(v)
    IN  CASE path = p.model_path -> ModelBlob(v)
          [] path = p.feature_list_path -> FeaturePayload(v)
          [] path = p.metadata_path -> MetadataPayload(v)
          [] path = p.sanitizer_path -> SanitizerBlob(v)

\* feature_payload.get("features", [])
GetFeatures(feature_payload) ==
    IF "features" \in DOMAIN feature_payload THEN feature_payload.features ELSE <<>>

\* ArtifactBundle(...): id is the identity of the constructed object
ArtifactBundle(id, version, model, feature_names, metadata, sanitizer) ==
    [id |-> id, version |-> version, model |-> model,
     feature_names |-> feature_names, metadata |-> metadata, sanitizer |-> sanitizer]

(***************************************************************************)
(* load_artifacts, as one call                                             *)
(***************************************************************************)
\* a fast path that forgets the use_cache flag
CacheHitIgnoringFlag(c, version, use_cache) == c # None /\ version = None

\* a fast path that is never taken
CacheHitNever(c, version, use_cache) == FALSE

\* the condition of the fast path (services.py line 65)
CacheHit(c, version, use_cache) == use_cache /\ c # None /\ version = None

\* the condition of the cache write (line 99); resolved is the local `version`
\* after line 69, which is never None there
CacheWrite(resolved, use_cache) == use_cache /\ resolved # None

\* an existence loop that leaves out the sanitizer
FirstMissingOfThree(d, version) ==
    LET absent == {i \in 1..3 : PathOrder(version)[i] \notin d}
    IN  IF absent = {} THEN 0 ELSE CHOOSE i \in absent : \A j \in absent : i <= j

\* index of the first path that does not exist, 0 when all four exist
FirstMissing(d, version) ==
    LET absent == {i \in 1..4 : PathOrder(version)[i] \notin d}
    IN  IF absent = {} THEN 0 ELSE CHOOSE i \in absent : \A j \in absent : i <= j

\* lines 80-97: the four reads and the construction
BuildBundle(id, version) ==
    LET p == ArtifactPaths(version)
    IN  ArtifactBundle(id, version,
                       ReadFile(p.model_path),
                       GetFeatures(ReadFile(p.feature_list_path)),
                       ReadFile(p.metadata_path),
                       ReadFile(p.sanitizer_path))

\* The outcome of load_artifacts(version, use_cache) on disk d, cache c, with
\* the next object identity nid: status, returned bundle, cache and identity
\* afterwards, number of disk accesses (glob, exists, reads), resolved version.
LoadArtifacts(d, c, nid, version, use_cache) ==
    IF CacheHit(c, version, use_cache)
    THEN [status |-> "ok", ret |-> c, cache |-> c, nextId |-> nid, io |-> 0,
          resolved |-> None]
    ELSE LET disc == IF version = None THEN DiscoverLatestVersion(d)
                     ELSE [status |-> "ok", version |-> version[1]]
             globs == IF version = None THEN 1 ELSE 0
         IN  IF disc.status # "ok"
             THEN [status |-> disc.status, ret |-> None, cache |-> c, nextId |-> nid,
                   io |-> globs, resolved |-> None]
             ELSE LET v == disc.version
                      m == FirstMissing(d, v)
                  IN  IF m # 0
                      THEN [status |-> "MissingArtifact", ret |-> None, cache |-> c,
                            nextId |-> nid, io |-> globs + m, resolved |-> Some(v)]
                      ELSE LET bundle == BuildBundle(nid, v)
                           IN  [status |-> "ok", ret |-> Some(bundle),
                                cache |-> IF CacheWrite(Some(v), use_cache)
                                          THEN Some(bundle) ELSE c,
                                nextId |-> nid + 1, io |-> globs + 8,
                                resolved |-> Some(v)]

VersionArgs == {None} \cup {Some(v) : v \in LoadVersions}

NoCall == [op |-> "none"]

NoThreads == <<>>

\* a caller invokes load_artifacts(version, use_cache)
LoadCall ==
    \E version \in VersionArgs, use_cache \in BOOLEAN :
        \E r \in {LoadArtifacts(disk, cache, nextId, version, use_cache)} :
            /\ r.nextId <= MaxLoads + 1
            /\ cache' = r.cache
            /\ nextId' = r.nextId
            /\ call' = [op |-> "load_artifacts", version |-> version,
                        use_cache |-> use_cache, cacheBefore |-> cache,
                        latestAtCall |-> DiscoverLatestVersion(disk),
                        missingAtCall |-> IF version = None THEN FALSE
                                          ELSE ~(PathSet(version[1]) \subseteq disk),
                        status |-> r.status, ret |-> r.ret, io |-> r.io]
            /\ UNCHANGED <<disk, pc, frame, writeLog>>

\* the training notebook saves one more artifact file
AddFile ==
    \E f \in AllFiles \ disk :
        /\ disk' = disk \cup {f}
        /\ UNCHANGED <<cache, nextId, call, pc, frame, writeLog>>

InitLoad ==
    /\ disk \in SUBSET AllFiles
    /\ cache = None
    /\ nextId = 1
    /\ call = NoCall
    /\ pc = NoThreads
    /\ frame = NoThreads
    /\ writeLog = <<>>

NextLoad == LoadCall \/ AddFile

Spec == InitLoad /\ [][NextLoad]_vars

(***************************************************************************)
(* Claims about load_artifacts as one call (specification Spec)            *)
(***************************************************************************)
IsLoad == call.op = "load_artifacts"

\* C1: with the cache populated, load_artifacts(None, True) returns the very
\* bundle the cache held and touches the disk zero times, whatever the
\* directories hold at that moment.
C1_CachedReturn ==
    (IsLoad /\ call.version = None /\ call.use_cache /\ call.cacheBefore # None)
        => /\ call.status = "ok"
           /\ call.ret = call.cacheBefore
           /\ call.io = 0
           /\ cache = call.cacheBefore

\* C1 witness: a cached return while discovery would by now find another version.
C1_Witness ==
    /\ IsLoad /\ call.version = None /\ call.use_cache /\ call.cacheBefore # None
    /\ call.latestAtCall.status = "ok"
    /\ call.latestAtCall.version # call.cacheBefore[1].version
    /\ call.ret = call.cacheBefore

\* C2: load_artifacts(version=X), with any use_cache, when one of X's four
\* files is absent: fails with the missing-artifact error, returns no bundle,
\* leaves the cache as it was.
C2_MissingFails ==
    (IsLoad /\ call.version # None /\ call.missingAtCall)
        => /\ call.status = "MissingArtifact"
           /\ call.ret = None
           /\ cache = call.cacheBefore

\* C2 witness: the failing call with a populated cache and use_cache on.
C2_Witness ==
    /\ IsLoad /\ call.version # None /\ call.missingAtCall
    /\ call.use_cache /\ call.cacheBefore # None
    /\ call.status = "MissingArtifact"

\* C3: the cache is only ever written by a load without an explicit version,
\* with a bundle of the version discovery found at that time.
C3_CacheOnlyFromLatest ==
    (IsLoad /\ cache # call.cacheBefore)
        => /\ call.version = None
           /\ cache = call.ret
           /\ call.latestAtCall.status = "ok"
           /\ cache[1].version = call.latestAtCall.version

\* C10: load_artifacts(v, use_cache=False) leaves the cache as it was, a bundle
\* it returns is a new one read from disk, and with v absent the bundle is of
\* the version discovery finds at the call.
C10_Bypass ==
    (IsLoad /\ ~call.use_cache)
        => /\ cache = call.cacheBefore
           /\ call.status = "ok" =>
                /\ call.ret # None /\ call.ret # call.cacheBefore
                /\ call.io >= 8
                /\ call.version # None => call.ret[1].version = call.version[1]
                /\ call.version = None =>
                     /\ call.latestAtCall.status = "ok"
                     /\ call.ret[1].version = call.latestAtCall.version
           /\ call.status # "ok" => call.ret = None

\* C10 witness: a bypassing latest load that succeeds while the cache holds a
\* bundle of another version.
C10_Witness ==
    /\ IsLoad /\ ~call.use_cache /\ call.version = None
    /\ call.status = "ok"
    /\ call.cacheBefore # None
    /\ call.cacheBefore[1].version # call.ret[1].version
    /\ cache = call.cacheBefore

(***************************************************************************)
(* load_artifacts step by step, called from concurrent request threads     *)
(***************************************************************************)
Threads == {"t1", "t2"}

\* the version that has been served so far ("2-1") and the one being saved ("2")
ServedVersion == <<50, 45, 49>>
SavedVersion == <<50>>

IdleFrame ==
    [version |-> None, use_cache |-> FALSE, fullAtBegin |-> FALSE, resolved |-> None,
     idx |-> 0, parts |-> <<>>, bundle |-> None, status |-> "none", ret |-> None]

\* a reader that takes the sanitizer of whatever version is latest at the read
ReadPartOfLatest(d, version, i) ==
    IF i = 4 /\ DiscoverLatestVersion(d).status = "ok"
    THEN ReadFile(PathOrder(DiscoverLatestVersion(d).version)[i])
    ELSE ReadFile(PathOrder(version)[i])

\* lines 80-89: the i-th read, of the i-th path of the resolved version
ReadPart(d, version, i) == ReadFile(PathOrder(version)[i])

\* lines 99-100: the cache slot after the write statement
CacheAfterWrite(c, bundle, resolved, use_cache) ==
    IF CacheWrite(resolved, use_cache) THEN Some(bundle) ELSE c

\* a request thread enters load_artifacts(version, use_cache)
Begin(t) ==
    /\ pc[t] = "idle"
    /\ \E version \in VersionArgs, use_cache \in BOOLEAN :
        frame' = [frame EXCEPT ![t] =
                    [IdleFrame EXCEPT !.version = version, !.use_cache = use_cache,
                                      !.fullAtBegin = (disk = AllFiles)]]
    /\ pc' = [pc EXCEPT ![t] = "check"]
    /\ UNCHANGED <<disk, cache, nextId, call, writeLog>>

\* line 65: the test of the fast path
CheckCache(t) ==
    /\ pc[t] = "check"
    /\ IF CacheHit(cache, frame[t].version, frame[t].use_cache)
       THEN /\ pc' = [pc EXCEPT ![t] = "return_cached"]
            /\ frame' = frame
       ELSE IF frame[t].version = None
       THEN /\ pc' = [pc EXCEPT ![t] = "discover"]
            /\ frame' = frame
       ELSE /\ pc' = [pc EXCEPT ![t] = "exists"]
            /\ frame' = [frame EXCEPT ![t].resolved = frame[t].version, ![t].idx = 1]
    /\ UNCHANGED <<disk, cache, nextId, call, writeLog>>

\* line 66: return _ARTIFACT_CACHE, a second read of the global
ReturnCached(t) ==
    /\ pc[t] = "return_cached"
    /\ frame' = [frame EXCEPT ![t].ret = cache, ![t].status = "ok"]
    /\ pc' = [pc EXCEPT ![t] = "done"]
    /\ UNCHANGED <<disk, cache, nextId, call, writeLog>>

\* line 69: _discover_latest_version()
Discover(t) ==
    /\ pc[t] = "discover"
    /\ LET disc == DiscoverLatestVersion(disk)
       IN  IF disc.status = "ok"
           THEN /\ frame' = [frame EXCEPT ![t].resolved = Some(disc.version),
                                          ![t].idx = 1]
                /\ pc' = [pc EXCEPT ![t] = "exists"]
           ELSE /\ frame' = [frame EXCEPT ![t].status = disc.status]
                /\ pc' = [pc EXCEPT ![t] = "failed"]
    /\ UNCHANGED <<disk, cache, nextId, call, writeLog>>

\* lines 76-78: one p.exists()
CheckExists(t) ==
    /\ pc[t] = "exists"
    /\ LET i == frame[t].idx
       IN  IF PathOrder(frame[t].resolved[1])[i] \notin disk
           THEN /\ frame' = [frame EXCEPT ![t].status = "MissingArtifact"]
                /\ pc' = [pc EXCEPT ![t] = "failed"]
           ELSE /\ frame' = [frame EXCEPT ![t].idx = IF i = 4 THEN 1 ELSE i + 1]
                /\ pc' = [pc EXCEPT ![t] = IF i = 4 THEN "read" ELSE "exists"]
    /\ UNCHANGED <<disk, cache, nextId, call, writeLog>>

\* lines 80-89: one file read
ReadOne(t) ==
    /\ pc[t] = "read"
    /\ LET i == frame[t].idx
       IN  IF PathOrder(frame[t].resolved[1])[i] \notin disk
           THEN /\ frame' = [frame EXCEPT ![t].status = "ReadError"]
                /\ pc' = [pc EXCEPT ![t] = "failed"]
           ELSE /\ frame' = [frame EXCEPT
                                ![t].parts = Append(frame[t].parts,
                                                    ReadPart(disk, frame[t].resolved[1], i)),
                                ![t].idx = IF i = 4 THEN 0 ELSE i + 1]
                /\ pc' = [pc EXCEPT ![t] = IF i = 4 THEN "construct" ELSE "read"]
    /\ UNCHANGED <<disk, cache, nextId, call, writeLog>>

\* lines 91-97: the bundle is constructed from the four pieces
Construct(t) ==
    /\ pc[t] = "construct"
    /\ LET parts == frame[t].parts
       IN  frame' = [frame EXCEPT
                        ![t].bundle = Some(ArtifactBundle(nextId, frame[t].resolved[1],
                                                          parts[1], GetFeatures(parts[2]),
                                                          parts[3], parts[4])),
                        ![t].parts = <<>>]
    /\ nextId' = nextId + 1
    /\ pc' = [pc EXCEPT ![t] = "write"]
    /\ UNCHANGED <<disk, cache, call, writeLog>>

\* lines 99-100: the cache write
WriteCache(t) ==
    /\ pc[t] = "write"
    /\ cache' = CacheAfterWrite(cache, frame[t].bundle[1], frame[t].resolved,
                                frame[t].use_cache)
    /\ writeLog' = IF CacheWrite(frame[t].resolved, frame[t].use_cache)
                   THEN Append(writeLog, t) ELSE writeLog
    /\ pc' = [pc EXCEPT ![t] = "return"]
    /\ UNCHANGED <<disk, nextId, call, frame>>

\* line 102: return bundle
ReturnBundle(t) ==
    /\ pc[t] = "return"
    /\ frame' = [frame EXCEPT ![t].ret = frame[t].bundle, ![t].status = "ok"]
    /\ pc' = [pc EXCEPT ![t] = "done"]
    /\ UNCHANGED <<disk, cache, nextId, call, writeLog>>

\* the training notebook saves one more file of the version being saved
SaveFile ==
    \E f \in PathSet(SavedVersion) \ disk :
        /\ disk' = disk \cup {f}
        /\ UNCHANGED <<cache, nextId, call, pc, frame, writeLog>>

\* The process serves the served version, whose bundle an earlier request may
\* have cached already; any part of the saved version may be on disk.
InitConc ==
    /\ disk \in {PathSet(ServedVersion) \cup S : S \in SUBSET PathSet(SavedVersion)}
    /\ \/ cache = None /\ nextId = 1
       \/ cache = Some(BuildBundle(1, ServedVersion)) /\ nextId = 2
    /\ call = NoCall
    /\ pc = [t \in Threads |-> "idle"]
    /\ frame = [t \in Threads |-> IdleFrame]
    /\ writeLog = <<>>

NextConc ==
    \/ \E t \in Threads : Begin(t)
    \/ \E t \in Threads : CheckCache(t)
    \/ \E t \in Threads : ReturnCached(t)
    \/ \E t \in Threads : Discover(t)
    \/ \E t \in Threads : CheckExists(t)
    \/ \E t \in Threads : ReadOne(t)
    \/ \E t \in Threads : Construct(t)
    \/ \E t \in Threads : WriteCache(t)
    \/ \E t \in Threads : ReturnBundle(t)
    \/ SaveFile

SpecConc == InitConc /\ [][NextConc]_vars

(***************************************************************************)
(* Claims about concurrent loads (specification SpecConc)                  *)
(***************************************************************************)
\* all four components of b are what the files of b.version hold
SameVersionBundle(b) ==
    /\ b.model = ModelBlob(b.version)
    /\ b.feature_names = GetFeatures(FeaturePayload(b.version))
    /\ b.metadata = MetadataPayload(b.version)
    /\ b.sanitizer = SanitizerBlob(b.version)

\* C8: under every interleaving the cache and every returned bundle are
\* complete and of one version; a load fails only on a missing file, never
\* when every file was there as it began; the cache holds the bundle of the
\* thread whose cache write came last.
C8_Concurrent ==
    /\ cache # None => SameVersionBundle(cache[1])
    /\ \A t \in Threads :
        /\ pc[t] = "done" =>
            /\ frame[t].status = "ok"
            /\ frame[t].ret # None
            /\ SameVersionBundle(frame[t].ret[1])
        /\ pc[t] = "failed" =>
            /\ frame[t].status \in {"NotFound", "MalformedName", "MissingArtifact"}
            /\ ~frame[t].fullAtBegin
            /\ frame[t].ret = None
    /\ writeLog # <<>> => cache = frame[writeLog[Len(writeLog)]].bundle

\* C8 witness: two loads of different versions raced, both returned, both wrote
\* the cache, and the one constructed first wrote last.
C8_Witness ==
    /\ \A t \in Threads : pc[t] = "done" /\ frame[t].bundle # None
    /\ Len(writeLog) = 2
    /\ frame[writeLog[1]].ret[1].version # frame[writeLog[2]].ret[1].version
    /\ frame[writeLog[2]].bundle[1].id < frame[writeLog[1]].bundle[1].id
    /\ cache = frame[writeLog[2]].bundle

(***************************************************************************)
(* _discover_latest_version over directories of version strings            *)
(* (specification SpecDiscover)                                            *)
(***************************************************************************)
\* characters of the version strings: "-", ".", "2"
VersionChars == {45, 46, 50}

VersionStrings == UNION {[1..n -> VersionChars] : n \in 1..MaxLen}

\* the versions whose metadata file is in directory d
VersionsPresent(d) == {v \in VersionStrings : ArtifactPaths(v).metadata_path \in d}

\* a caller invokes _discover_latest_version()
DiscoverCall ==
    /\ \E r \in {DiscoverLatestVersion(disk)} :
           call' = [op |-> "discover", present |-> VersionsPresent(disk),
                    status |-> r.status, version |-> r.version]
    /\ UNCHANGED <<disk, cache, nextId, pc, frame, writeLog>>

\* the training notebook saves the four files of one more version
SaveVersion ==
    /\ Cardinality(VersionsPresent(disk)) < MaxSet
    /\ \E v \in VersionStrings \ VersionsPresent(disk) :
        disk' = disk \cup PathSet(v)
    /\ UNCHANGED <<cache, nextId, call, pc, frame, writeLog>>

InitDiscover ==
    /\ \E S \in SUBSET VersionStrings :
        /\ Cardinality(S) <= MaxSet
        /\ disk = UNION {PathSet(v) : v \in S}
    /\ cache = None
    /\ nextId = 1
    /\ call = NoCall
    /\ pc = NoThreads
    /\ frame = NoThreads
    /\ writeLog = <<>>

NextDiscover == DiscoverCall \/ SaveVersion

SpecDiscover == InitDiscover /\ [][NextDiscover]_vars

\* C4: over a non-empty set of metadata files, discovery returns the
\* lexicographically greatest version string of the set.
C4_GreatestVersion ==
    (call.op = "discover" /\ call.present # {})
        => /\ call.status = "ok"
           /\ call.version \in call.present
           /\ \A v \in call.present : StrLeq(v, call.version)

(***************************************************************************)
(* Floating-point cells.  A cell is a finite number, NaN or an infinity.   *)
(* Finite numbers are integers (every one of them exact in float64).       *)
(***************************************************************************)
Num(n) == [k |-> "num", v |-> n]
NaN == [k |-> "nan", v |-> 0]
PosInf == [k |-> "inf", v |-> 1]
NegInf == [k |-> "inf", v |-> -1]

\* np.isfinite / np.isnan
IsFinite(x) == x.k = "num"
IsNaN(x) == x.k = "nan"

RECURSIVE Pow2(_)
Pow2(e) == IF e = 0 THEN 1 ELSE 2 * Pow2(e - 1)

\* the e with 2^e <= n < 2^(e+1), for n >= 1
RECURSIVE Log2Floor(_)
Log2Floor(n) == IF n < 2 THEN 0 ELSE 1 + Log2Floor(n \div 2)

Abs(n) == IF n < 0 THEN -n ELSE n

\* astype("float32") of an integer-valued float64: a 24-bit significand,
\* round to nearest, ties to even
Float32OfInt(n) ==
    IF n = 0 THEN 0
    ELSE LET a == Abs(n)
             e == Log2Floor(a)
         IN  IF e < 24 THEN n
             ELSE LET ulp == Pow2(e - 23)
                      q == a \div ulp
                      r == a % ulp
                      up == 2 * r > ulp \/ (2 * r = ulp /\ q % 2 = 1)
                      m == (IF up THEN q + 1 ELSE q) * ulp
                  IN  IF n < 0 THEN -m ELSE m

Float32(x) == IF IsFinite(x) THEN Num(Float32OfInt(x.v)) ELSE x

(***************************************************************************)
(* Tables (pd.DataFrame): column labels, row index, rows of cells          *)
(***************************************************************************)
HasColumn(X, name) == \E j \in 1..Len(X.columns) : X.columns[j] = name

ColumnPos(X, name) == CHOOSE j \in 1..Len(X.columns) : X.columns[j] = name

\* X.reindex(columns=columns): a label X lacks gives a column of NaN
Reindex(X, columns) ==
    [columns |-> columns,
     index |-> X.index,
     rows |-> [i \in 1..Len(X.rows) |->
                 [j \in 1..Len(columns) |->
                     IF HasColumn(X, columns[j])
                     THEN X.rows[i][ColumnPos(X, columns[j])]
                     ELSE NaN]]]

(***************************************************************************)
(* apply_sanitizer                                                         *)
(***************************************************************************)
\* an imputation that looks the median up by the row of the cell
ImputeByRow(arr, medians, i, j) ==
    IF IsNaN(arr[i][j]) THEN Num(medians[IF i <= Len(medians) THEN i ELSE j])
    ELSE arr[i][j]

\* line 126 for one cell: arr[inds] = medians[inds[1]]
Impute(arr, medians, i, j) ==
    IF IsNaN(arr[i][j]) THEN Num(medians[j]) ELSE arr[i][j]

ApplySanitizer(X, sanitizer) ==
    LET columns == sanitizer.columns
        medians == sanitizer.medians
        X_num == Reindex(X, columns)
        n == Len(X_num.rows)
        w == Len(columns)
        \* lines 117-120: non-finite cells become NaN
        arr == [i \in 1..n |-> [j \in 1..w |->
                    IF IsFinite(X_num.rows[i][j]) THEN X_num.rows[i][j] ELSE NaN]]
        \* lines 122-125: the column indices of the NaN cells
        nanCols == {j \in 1..w : \E i \in 1..n : IsNaN(arr[i][j])}
    IN  IF \E j \in nanCols : j > Len(medians)
        THEN [status |-> "IndexError", out |-> None]
        ELSE [status |-> "ok",
              out |-> Some([columns |-> columns,
                            index |-> X.index,
                            rows |-> [i \in 1..n |-> [j \in 1..w |->
                                        Float32(Impute(arr, medians, i, j))]]])]

(***************************************************************************)
(* predict_from_dataframe                                                  *)
(***************************************************************************)
\* model.predict_proba(X)[:, 1]: the model is a deterministic function of the
\* numbers of a row, in column position order; probabilities in halves
Score(model, row) ==
    LET RECURSIVE Sum(_)
        Sum(j) == IF j = 0 THEN 0
                  ELSE Sum(j - 1) + (IF IsFinite(row[j]) THEN row[j].v % 3 ELSE 0)
    IN  (model.bias + Sum(Len(row))) % 3

PredictProba(model, X) == [i \in 1..Len(X.rows) |-> Score(model, X.rows[i])]

\* a strict comparison
LabelStrict(p, threshold) == IF p > threshold THEN 1 ELSE 0

\* line 151: proba >= threshold
Label(p, threshold) == IF p >= threshold THEN 1 ELSE 0

\* The outcome of predict_from_dataframe(df, threshold, artifacts) on disk d,
\* cache c, next object identity nid.
PredictFromDataframe(d, c, nid, df, threshold, artifacts) ==
    LET load == IF artifacts = None
                THEN LoadArtifacts(d, c, nid, None, TRUE)
                ELSE [status |-> "ok", ret |-> artifacts, cache |-> c, nextId |-> nid]
        failed(status) == [status |-> status, proba |-> <<>>, labels |-> <<>>,
                           artifacts |-> None, scored |-> None,
                           cache |-> load.cache, nextId |-> load.nextId]
    IN  IF load.status # "ok" THEN failed(load.status)
        ELSE LET bundle == load.ret[1]
                 clean == ApplySanitizer(Reindex(df, bundle.feature_names),
                                         bundle.sanitizer)
             IN  IF clean.status # "ok" THEN failed(clean.status)
                 ELSE LET proba == PredictProba(bundle.model, clean.out[1])
                      IN  [status |-> "ok", proba |-> proba,
                           labels |-> [i \in 1..Len(proba) |-> Label(proba[i], threshold)],
                           artifacts |-> Some(bundle), scored |-> clean.out,
                           cache |-> load.cache, nextId |-> load.nextId]

(***************************************************************************)
(* Inputs of the sanitizer and inference runs                              *)
(***************************************************************************)
ColumnNames == {"a", "b"}

\* column label sequences without repetition (an input table, a feature list)
Layouts == {<<>>, <<"a">>, <<"b">>, <<"a", "b">>, <<"b", "a">>}

\* column label sequences of a sanitizer, repetitions included
ColumnSeqs == UNION {[1..n -> ColumnNames] : n \in 0..2}

\* one median per position; the second one is not exact in float32
MedianSeqs == {SubSeq(<<7, 16777219, 9>>, 1, n) : n \in 0..3}

Sanitizers == {[columns |-> c, medians |-> m] : c \in ColumnSeqs, m \in MedianSeqs}

\* an ordinary number, a number that float32 rounds, and the three bad values
Cells == {Num(3), Num(16777217), NaN, PosInf, NegInf}

\* the cells of an input column: every kind in column "a", an ordinary number
\* or a missing one in column "b"
SanitizerCells == [name \in {"a", "b"} |-> IF name = "a" THEN Cells ELSE {Num(3), NaN}]

\* the tables with a column layout of layouts, up to MaxRows rows, and cells
\* cellsOf[label] in the column of that label
TablesOver(layouts, cellsOf) ==
    UNION {UNION {{[columns |-> L, index |-> [i \in 1..n |-> i], rows |-> r] :
                        r \in [1..n -> {row \in [1..Len(L) -> Cells] :
                                            \A j \in 1..Len(L) : row[j] \in cellsOf[L[j]]}]} :
                  n \in 0..MaxRows} :
           L \in layouts}

SanitizerTables == TablesOver(Layouts, SanitizerCells)

\* a caller invokes apply_sanitizer(X, sanitizer); one call per behaviour
SanitizeCall ==
    /\ call.op = "none"
    /\ \E X \in SanitizerTables, sanitizer \in Sanitizers :
        \E r \in {ApplySanitizer(X, sanitizer)} :
            call' = [op |-> "apply_sanitizer", X |-> X, sanitizer |-> sanitizer,
                     status |-> r.status, out |-> r.out]
    /\ UNCHANGED <<disk, cache, nextId, pc, frame, writeLog>>

InitSanitize ==
    /\ disk = {}
    /\ cache = None
    /\ nextId = 1
    /\ call = NoCall
    /\ pc = NoThreads
    /\ frame = NoThreads
    /\ writeLog = <<>>

NextSanitize == SanitizeCall

SpecSanitize == InitSanitize /\ [][NextSanitize]_vars

IsSanitize == call.op = "apply_sanitizer"

\* a cell that the sanitizer must repair: column absent, NaN or infinite
NeedsMedian(X, name, i) ==
    \/ ~HasColumn(X, name)
    \/ ~IsFinite(X.rows[i][ColumnPos(X, name)])

C6_LengthMismatchFails ==
    (IsSanitize /\ Len(call.sanitizer.columns) # Len(call.sanitizer.medians))
        => call.status = "SchemaMismatch" /\ call.out = None

(***************************************************************************)
(* Inference runs (specification SpecPredict)                              *)
(***************************************************************************)
PredictCells == [name \in {"a", "b"} |-> {Num(3), NaN}]

PredictTables == TablesOver(Layouts, PredictCells)

Thresholds == {DEFAULT_DECISION_THRESHOLD, 2}

Models == {[bias |-> 0]}

\* bundles a caller passes in: the feature list and the sanitizer's columns
\* need not agree, nor the sanitizer's two lengths
GivenBundles ==
    {ArtifactBundle(0, SavedVersion, m, f, [target_column |-> "Label"], s) :
        m \in Models, f \in Layouts, s \in Sanitizers}

\* a caller invokes predict_from_dataframe(df, threshold, artifacts); one call
\* per behaviour
PredictCall ==
    /\ call.op = "none"
    /\ \E df \in PredictTables, threshold \in Thresholds,
          artifacts \in {None} \cup {Some(b) : b \in GivenBundles} :
        \E r \in {PredictFromDataframe(disk, cache, nextId, df, threshold, artifacts)} :
            /\ cache' = r.cache
            /\ nextId' = r.nextId
            /\ call' = [op |-> "predict_from_dataframe", df |-> df,
                        threshold |-> threshold, given |-> artifacts,
                        cacheBefore |-> cache, status |-> r.status,
                        proba |-> r.proba, labels |-> r.labels,
                        artifacts |-> r.artifacts, scored |-> r.scored]
    /\ UNCHANGED <<disk, pc, frame, writeLog>>

\* No artifact saved yet; or both versions saved and nothing cached; or both
\* saved and the served version cached by an earlier request.
InitPredict ==
    /\ \/ disk = {} /\ cache = None /\ nextId = 1
       \/ disk = AllFiles /\ cache = None /\ nextId = 1
       \/ disk = AllFiles /\ cache = Some(BuildBundle(1, ServedVersion)) /\ nextId = 2
    /\ call = NoCall
    /\ pc = NoThreads
    /\ frame = NoThreads
    /\ writeLog = <<>>

NextPredict == PredictCall

SpecPredict == InitPredict /\ [][NextPredict]_vars

IsPredict == call.op = "predict_from_dataframe"

\* C7: the table handed to the model has the columns bundle.feature_names, in
\* that order, whatever the sanitizer's columns are.
C7_ScoredInFeatureOrder ==
    (IsPredict /\ call.status = "ok")
        => call.scored[1].columns = call.artifacts[1].feature_names

\* the probability of input row i alone, through the returned bundle's
\* sanitizer and model
RowProba(i) ==
    LET b == call.artifacts[1]
        one == [columns |-> call.df.columns, index |-> <<call.df.index[i]>>,
                rows |-> <<call.df.rows[i]>>]
        clean == ApplySanitizer(Reindex(one, b.feature_names), b.sanitizer)
    IN  Score(b.model, clean.out[1].rows[1])

\* C9: a returning predict_from_dataframe gives one probability and one label
\* per input row, in input row order, label 1 exactly when the probability is
\* at least the threshold, and returns the bundle it used: the one passed in,
\* or the one load_artifacts() gave.
C9_Predict ==
    (IsPredict /\ call.status = "ok")
        => /\ Len(call.proba) = Len(call.df.rows)
           /\ Len(call.labels) = Len(call.df.rows)
           /\ \A i \in 1..Len(call.df.rows) :
                /\ call.proba[i] = RowProba(i)
                /\ call.labels[i] \in {0, 1}
                /\ call.labels[i] = 1 <=> call.proba[i] >= call.threshold
           /\ call.given # None => call.artifacts = call.given
           /\ call.given = None =>
                /\ call.artifacts = cache
                /\ call.cacheBefore # None => call.artifacts = call.cacheBefore

\* C9 witness: two rows with different probabilities, one of them exactly the
\* threshold and labelled 1, the other below it and labelled 0, scored with the
\* bundle load_artifacts() read from disk.
C9_Witness ==
    /\ IsPredict /\ call.status = "ok" /\ call.given = None /\ call.cacheBefore = None
    /\ Len(call.df.rows) = 2
    /\ call.proba[1] = call.threshold /\ call.labels[1] = 1
    /\ call.proba[2] < call.threshold /\ call.labels[2] = 0

====
